---- MODULE Spec2Model ----
(***************************************************************************)
(* A model of disktools.py, the disk tools library of DumpMaster64: the    *)
(* 1541 disk geometry, the PETSCII/ASCII conversion, the block allocation  *)
(* map (class BAM) and the directory (class Dir).                          *)
(*                                                                         *)
(* Python values are modelled as follows.  A buffer is a sequence of       *)
(* integers 0..255 together with its kind: "bytes" (immutable: an item     *)
(* assignment raises TypeError) or "bytearray" (mutable).  Python's index   *)
(* i is element i+1 of the sequence.  A str is the sequence of its code    *)
(* points.  An operation that can raise returns a record whose field err   *)
(* is "none" or the name of the exception ("IndexError", "TypeError").     *)
(***************************************************************************)
EXTENDS Integers, Sequences, FiniteSets

VARIABLES
  kind,       \* the kind of the caller's buffer: "bytes" or "bytearray"
  bam,        \* BAM.bam: the sector buffer the BAM object wraps
  bam0,       \* the buffer as it was handed to BAM.__init__
  blocks,     \* the (track, sector) arguments the caller uses in this run
  log,        \* the last two BAM calls: op, arguments, outcome, buffer before
  dirblocks,  \* the buffer handed to Dir.__init__
  dirobj,     \* the Dir object: its buffers bam and dir, and the fields
              \* title, ident, blocksfree, header, filelist of dirpass
  geo,        \* a geometry call: arguments and the values returned
  pet         \* a PETSCII conversion: the input line and the converted lines

vars == <<kind, bam, bam0, blocks, log, dirblocks, dirobj, geo, pet>>

(***************************************************************************)
(* Python primitives                                                       *)
(***************************************************************************)

Min(a, b) == IF a < b THEN a ELSE b

\* The indices i for which buf[i] does not raise IndexError.
InRange(buf, i) == -Len(buf) <= i /\ i < Len(buf)

\* buf[i], a negative i counting from the end of the buffer.
At(buf, i) == IF i >= 0 THEN buf[i + 1] ELSE buf[Len(buf) + i + 1]

\* buf[i] = v on a copy of the buffer.
Put(buf, i, v) == [buf EXCEPT ![IF i >= 0 THEN i + 1 ELSE Len(buf) + i + 1] = v]

\* buf[lo:hi] for 0 <= lo <= hi: a slice never raises, it is cut at the end.
Slice(buf, lo, hi) == SubSeq(buf, lo + 1, Min(hi, Len(buf)))

\* buf[lo:] for 0 <= lo.
SliceFrom(buf, lo) == SubSeq(buf, lo + 1, Len(buf))

\* 1 << k
Shl(k) == 2 ^ k

\* a & b and a | b on non-negative integers.
RECURSIVE BitAnd(_, _)
BitAnd(a, b) ==
  IF a = 0 \/ b = 0 THEN 0
  ELSE (IF a % 2 = 1 /\ b % 2 = 1 THEN 1 ELSE 0) + 2 * BitAnd(a \div 2, b \div 2)

RECURSIVE BitOr(_, _)
BitOr(a, b) ==
  IF a = 0 THEN b
  ELSE IF b = 0 THEN a
  ELSE (IF a % 2 = 1 \/ b % 2 = 1 THEN 1 ELSE 0) + 2 * BitOr(a \div 2, b \div 2)

\* s.ljust(width): pads with spaces on the right, never truncates.
RECURSIVE Ljust(_, _)
Ljust(s, width) == IF Len(s) >= width THEN s ELSE Ljust(Append(s, 32), width)

\* The upper-casing of one code point 0..255 (str.upper): a-z and the
\* Latin-1 lower-case letters move to their capitals, the micro sign to the
\* Greek capital mu, y-diaeresis to U+0178, and the sharp s becomes "SS".
UpperChar(c) ==
  IF c >= 97 /\ c <= 122 THEN <<c - 32>>
  ELSE IF c = 181 THEN <<924>>
  ELSE IF c = 223 THEN <<83, 83>>
  ELSE IF c >= 224 /\ c <= 254 /\ c # 247 THEN <<c - 32>>
  ELSE IF c = 255 THEN <<376>>
  ELSE <<c>>

RECURSIVE Upper(_)
Upper(s) ==
  IF Len(s) = 0 THEN <<>>
  ELSE IF Len(s) = 1 THEN UpperChar(s[1])
  ELSE Upper(SubSeq(s, 1, Len(s) \div 2))
         \o Upper(SubSeq(s, (Len(s) \div 2) + 1, Len(s)))

\* int.from_bytes(b, byteorder='little')
RECURSIVE FromBytesLittle(_)
FromBytesLittle(b) ==
  IF b = <<>> THEN 0 ELSE Head(b) + 256 * FromBytesLittle(Tail(b))

(***************************************************************************)
(* PETSCII to ASCII conversion tables and the file types                   *)
(***************************************************************************)

PETtoASCtable ==
  <<
      0,  1,  2,  3,  4,  5,  6,  7, 20,  9, 13, 17,147, 10, 14, 15,
     16, 11, 18, 19,  8, 21, 22, 23, 24, 25, 26, 27, 28, 29, 30, 31,
     32, 33, 34, 35, 36, 37, 38, 39, 40, 41, 42, 43, 44, 45, 46, 47,
     48, 49, 50, 51, 52, 53, 54, 55, 56, 57, 58, 59, 60, 61, 62, 63,
     64, 97, 98, 99,100,101,102,103,104,105,106,107,108,109,110,111,
    112,113,114,115,116,117,118,119,120,121,122, 91, 92, 93, 94, 95,
    192,193,194,195,196,197,198,199,200,201,202,203,204,205,206,207,
    208,209,210,211,212,213,214,215,216,217,218,219,220,221,222,223,
    128,129,130,131,132,133,134,135,136,137,138,139,140,141,142,143,
    144,145,146, 12,148,149,150,151,152,153,154,155,156,157,158,159,
    160,161,162,163,164,165,166,167,168,169,170,171,172,173,174,175,
    176,177,178,179,180,181,182,183,184,185,186,187,188,189,190,191,
     96, 65, 66, 67, 68, 69, 70, 71, 72, 73, 74, 75, 76, 77, 78, 79,
     80, 81, 82, 83, 84, 85, 86, 87, 88, 89, 90,123,124,125,126,127,
    160,161,162,163,164,165,166,167,168,169,170,171,172,173,174,175,
    176,177,178,179,180,181,182,183,184,185,186,187,188,189,190,191
  >>

ASCtoPETtable ==
  <<
      0,  1,  2,  3,  4,  5,  6,  7, 20, 32, 13, 17,147, 10, 14, 15,
     16, 11, 18, 19,  8, 21, 22, 23, 24, 25, 26, 27, 28, 29, 30, 31,
     32, 33, 34, 35, 36, 37, 38, 39, 40, 41, 42, 43, 44, 45, 46, 47,
     48, 49, 50, 51, 52, 53, 54, 55, 56, 57, 58, 59, 60, 61, 62, 63,
     64,193,194,195,196,197,198,199,200,201,202,203,204,205,206,207,
    208,209,210,211,212,213,214,215,216,217,218, 91, 92, 93, 94, 95,
    192, 65, 66, 67, 68, 69, 70, 71, 72, 73, 74, 75, 76, 77, 78, 79,
     80, 81, 82, 83, 84, 85, 86, 87, 88, 89, 90,219,220,221,222,223,
    128,129,130,131,132,133,134,135,136,137,138,139,140,141,142,143,
    144,145,146, 12,148,149,150,151,152,153,154,155,156,157,158,159,
    160,161,162,163,164,165,166,167,168,169,170,171,172,173,174,175,
    176,177,178,179,180,181,182,183,184,185,186,187,188,189,190,191,
     96, 97, 98, 99,100,101,102,103,104,105,106,107,108,109,110,111,
    112,113,114,115,116,117,118,119,120,121,122,123,124,125,126,127,
    224,225,226,227,228,229,230,231,232,233,234,235,236,237,238,239,
    240,241,242,243,244,245,246,247,248,249,250,251,252,253,254,255
  >>

FILETYPES == <<"DEL", "SEQ", "PRG", "USR", "REL">>

(***************************************************************************)
(* Basic functions to work with a disk                                     *)
(***************************************************************************)

\* A faulty getsectors whose last zone ends one track early (track < 40):
\* C7 must fail on it.
getsectors_short(track) ==
  IF track < 1 THEN 0
  ELSE IF track < 18 THEN 21
  ELSE IF track < 25 THEN 19
  ELSE IF track < 31 THEN 18
  ELSE IF track < 40 THEN 17
  ELSE 0

\* Get number of sectors in track
getsectors(track) ==
  IF track < 1 THEN 0
  ELSE IF track < 18 THEN 21
  ELSE IF track < 25 THEN 19
  ELSE IF track < 31 THEN 18
  ELSE IF track < 41 THEN 17
  ELSE 0

\* The loop of getsectornumber: number += getsectors(x) for x in range(1, track).
RECURSIVE SumSectors(_, _)
SumSectors(x, track) ==
  IF x >= track THEN 0 ELSE getsectors(x) + SumSectors(x + 1, track)

\* A faulty getsectornumber whose loop also counts the track itself
\* (range(1, track + 1)): C10 must fail on it.
getsectornumber_inclusive(track, sector) == SumSectors(1, track + 1) + sector

\* Get absolute sector number
getsectornumber(track, sector) == SumSectors(1, track) + sector

\* Get pointer to track/sector in D64 file
getfilepointer(track, sector) == 256 * getsectornumber(track, sector)

(***************************************************************************)
(* PETSCII functions                                                       *)
(***************************************************************************)

\* A faulty PETtoASC that copies the bytes without the table: C5 must fail
\* on it.
PETtoASC_copy(line) == [i \in 1..Len(line) |-> line[i]]

\* Convert PETSCII bytes to ASCII string
PETtoASC(line) == [i \in 1..Len(line) |-> PETtoASCtable[line[i] + 1]]

\* Convert ASCII string to PETSCII string.  ASCtoPETtable[ord(x)] raises
\* IndexError for a character above 255.
ASCtoPET(line) ==
  IF \E i \in 1..Len(line) : line[i] > 255
    THEN [err |-> "IndexError", val |-> <<>>]
    ELSE [err |-> "none",
          val |-> [i \in 1..Len(line) |-> ASCtoPETtable[line[i] + 1]]]

\* Delete $A0 padding in PETSCII bytes
PETdelpadding(line) == SelectSeq(line, LAMBDA x : x # 160)

(***************************************************************************)
(* BAM class - working with the BAM                                        *)
(***************************************************************************)

\* Get disk name
getdiskname(b) == PETtoASC(PETdelpadding(Slice(b, 144, 160)))

\* Get disk ID
getdiskident(b) == PETtoASC(Slice(b, 162, 164))

\* Generate header for directory
getheader(b) ==
  Upper(<<48, 32, 32, 32, 32, 34>>
        \o Ljust(Append(getdiskname(b), 34), 19)
        \o Ljust(getdiskident(b), 3)
        \o PETtoASC(Slice(b, 165, 167)))

\* range(0x04, 0x90, 0x04): the offsets of the 35 free-count bytes.
CountOffsets == {4 * t : t \in 1..35}

\* A faulty loop that adds the byte at 0x48 as well: C6 must fail on it.
RECURSIVE BlocksFreeLoop_all(_, _)
BlocksFreeLoop_all(b, x) ==
  IF x >= 144 THEN 0 ELSE At(b, x) + BlocksFreeLoop_all(b, x + 4)

\* The loop of getblocksfree from offset x on: the byte at 0x48 is skipped.
RECURSIVE BlocksFreeLoop(_, _)
BlocksFreeLoop(b, x) ==
  IF x >= 144 THEN 0
  ELSE (IF x = 72 THEN 0 ELSE At(b, x)) + BlocksFreeLoop(b, x + 4)

\* Calculate free blocks shown in directory (exclude track 18)
getblocksfree(b) ==
  IF \E x \in CountOffsets : x # 72 /\ ~InRange(b, x)
    THEN [err |-> "IndexError", val |-> 0]
    ELSE [err |-> "none", val |-> BlocksFreeLoop(b, 4)]

\* The loop of getallocated from offset x on.
RECURSIVE AllocatedLoop(_, _)
AllocatedLoop(b, x) ==
  IF x >= 144 THEN 0
  ELSE (getsectors(x \div 4) - At(b, x)) + AllocatedLoop(b, x + 4)

\* Get total number of allocated sectors on disk
getallocated(b) ==
  IF \E x \in CountOffsets : ~InRange(b, x)
    THEN [err |-> "IndexError", val |-> 0]
    ELSE [err |-> "none", val |-> AllocatedLoop(b, 4)]

\* 4 * track + 1 + (sector // 8): the index of the bitmap byte of a block.
BitmapIndex(track, sector) == 4 * track + 1 + (sector \div 8)

\* Check if specified sector on specified track is free (not allocated)
blockisfree(b, track, sector) ==
  LET idx == BitmapIndex(track, sector) IN
  IF ~InRange(b, idx)
    THEN [err |-> "IndexError", val |-> FALSE]
    ELSE [err |-> "none", val |-> BitAnd(At(b, idx), Shl(sector % 8)) > 0]

\* A faulty allocateblock that masks with the bit instead of its complement
\* (temp &= 1 << (sector % 8)): C2 must fail on it.
allocateblock_nocomplement(k, b, track, sector) ==
  LET idx == BitmapIndex(track, sector) IN
  IF ~InRange(b, idx)
    THEN [err |-> "IndexError", bam |-> b]
  ELSE IF k = "bytes"
    THEN [err |-> "TypeError", bam |-> b]
    ELSE [err |-> "none",
          bam |-> Put(b, idx, BitAnd(At(b, idx), Shl(sector % 8)))]

\* An allocateblock that also takes the block off the free count of its
\* track when the block was free: C9 must fail on it.
allocateblock_count(k, b, track, sector) ==
  LET idx == BitmapIndex(track, sector) IN
  IF ~InRange(b, idx) \/ ~InRange(b, 4 * track)
    THEN [err |-> "IndexError", bam |-> b]
  ELSE IF k = "bytes"
    THEN [err |-> "TypeError", bam |-> b]
    ELSE LET cleared == Put(b, idx, BitAnd(At(b, idx), 255 - Shl(sector % 8))) IN
         [err |-> "none",
          bam |-> IF BitAnd(At(b, idx), Shl(sector % 8)) > 0
                    THEN Put(cleared, 4 * track, (At(cleared, 4 * track) + 255) % 256)
                    ELSE cleared]

\* Allocate a block in the BAM.  The read of line 68 raises IndexError
\* first; the assignment of line 70 raises TypeError on a bytes buffer.
allocateblock(k, b, track, sector) ==
  LET idx == BitmapIndex(track, sector) IN
  IF ~InRange(b, idx)
    THEN [err |-> "IndexError", bam |-> b]
  ELSE IF k = "bytes"
    THEN [err |-> "TypeError", bam |-> b]
    ELSE [err |-> "none",
          bam |-> Put(b, idx, BitAnd(At(b, idx), 255 - Shl(sector % 8)))]

\* A faulty deallocateblock that clears the bit as allocateblock does: C1
\* must fail on it.
deallocateblock_clears(k, b, track, sector) ==
  LET idx == BitmapIndex(track, sector) IN
  IF ~InRange(b, idx)
    THEN [err |-> "IndexError", bam |-> b]
  ELSE IF k = "bytes"
    THEN [err |-> "TypeError", bam |-> b]
    ELSE [err |-> "none",
          bam |-> Put(b, idx, BitAnd(At(b, idx), 255 - Shl(sector % 8)))]

\* De-allocate a block in the BAM.  The read of line 74 raises IndexError
\* first; the assignment of line 76 raises TypeError on a bytes buffer.
deallocateblock(k, b, track, sector) ==
  LET idx == BitmapIndex(track, sector) IN
  IF ~InRange(b, idx)
    THEN [err |-> "IndexError", bam |-> b]
  ELSE IF k = "bytes"
    THEN [err |-> "TypeError", bam |-> b]
    ELSE [err |-> "none",
          bam |-> Put(b, idx, BitOr(At(b, idx), Shl(sector % 8)))]

(***************************************************************************)
(* The BAM object as a state machine                                       *)
(***************************************************************************)

MaxSectorArg == 21

\* PETSCII text fields of the sample sectors.
NameTestDisk == <<84, 69, 83, 84, 32, 68, 73, 83, 75>>
NameGames == <<71, 65, 77, 69, 83>>
NameLong == <<193, 194, 195, 32, 100, 105, 115, 107, 32, 49, 50, 51, 52, 53, 54, 223>>

Fills == {"free", "mixed", "full"}

Kinds == {"bytes", "bytearray"}

DiskNameOf(fill) ==
  IF fill = "free" THEN NameTestDisk
  ELSE IF fill = "mixed" THEN NameGames
  ELSE NameLong

DiskIdOf(fill) == IF fill = "free" THEN <<56, 65>> ELSE <<48, 49>>

\* The 24-bit bitmap of a track in a sample sector: bit s set = sector s free.
TrackBits(fill, t) ==
  LET all == 2 ^ getsectors(t) - 1 IN
  IF fill = "free" THEN (IF t = 18 THEN all - 3 ELSE all)
  ELSE IF fill = "mixed"
    THEN BitAnd(IF t % 2 = 1 THEN 5592405 ELSE 11184810, all)
  ELSE 0

RECURSIVE PopCount(_)
PopCount(n) == IF n = 0 THEN 0 ELSE (n % 2) + PopCount(n \div 2)

\* The free-count byte of a track in a sample sector.  The "mixed" sector
\* carries a free count for track 18 that does not match its bitmap.
TrackCount(fill, t) ==
  IF fill = "mixed" /\ t = 18 THEN 255 ELSE PopCount(TrackBits(fill, t))

\* A 256-byte BAM sector as a 1541 writes it: the link to the directory, the
\* DOS version, 35 groups of free count and bitmap, the disk name padded
\* with $A0, the disk ID and the DOS type.
MakeBam(fill) ==
  [i \in 1..256 |->
    LET x == i - 1
        name == DiskNameOf(fill)
    IN
    IF x = 0 THEN 18
    ELSE IF x = 1 THEN 1
    ELSE IF x = 2 THEN 65
    ELSE IF x = 3 THEN 0
    ELSE IF x < 144 THEN
      (IF x % 4 = 0 THEN TrackCount(fill, x \div 4)
       ELSE (TrackBits(fill, x \div 4) \div (256 ^ ((x % 4) - 1))) % 256)
    ELSE IF x < 160 THEN (IF x - 143 <= Len(name) THEN name[x - 143] ELSE 160)
    ELSE IF x = 162 \/ x = 163 THEN DiskIdOf(fill)[x - 161]
    ELSE IF x = 165 THEN 50
    ELSE IF x = 166 THEN 65
    ELSE IF x < 171 THEN 160
    ELSE 0]

\* The track and sector arguments of the calls: every track of the BAM, the
\* tracks next to its range, and the tracks where the byte index
\* 4 * track + 1 passes the ends of a 256-byte buffer.
TrackArgs == (-1 .. 36) \cup {-65, -64, 63, 64}

SectorArgs == 0 .. MaxSectorArg

\* A run that works on one block.
BlockScopes == {{<<t, s>>} : t \in TrackArgs, s \in SectorArgs}

\* A run that works on a few blocks: blocks of the disk in different zones,
\* or arguments outside the geometry (a sector past the bitmap of its track,
\* tracks outside 1..35).
MixedScopes ==
  {{<<1, 0>>, <<18, 1>>, <<35, 16>>},
   {<<17, 24>>, <<36, 0>>, <<0, 3>>}}

\* The log keeps the last two calls.
Push(l, e) == IF Len(l) < 2 THEN Append(l, e) ELSE Append(Tail(l), e)

Call(op, track, sector, err, free, val) ==
  [op |-> op, track |-> track, sector |-> sector, err |-> err,
   free |-> free, val |-> val, before |-> bam]

\* The Dir object before Dir is called.  state: "none", "built" (the caller
\* holds the object) or "failed" (the constructor raised); last and err: the
\* last call on the object and how it ended.
NoDir ==
  [state |-> "none", last |-> "none", err |-> "none", bam |-> <<>>,
   dir |-> <<>>, title |-> <<>>, ident |-> <<>>, blocksfree |-> 0,
   header |-> <<>>, filelist |-> <<>>]

NoGeo == [op |-> "none", track |-> 0, sector |-> 0, val |-> 0]

NoPet == [stage |-> "none", line |-> <<>>, asc |-> <<>>, err |-> "none", back |-> <<>>]

\* BAM.__init__: the object wraps the caller's buffer.
InitBAM ==
  /\ \E fill \in Fills : bam = MakeBam(fill)
  /\ kind \in Kinds
  /\ bam0 = bam
  /\ blocks \in MixedScopes
  /\ log = <<>>
  /\ dirblocks = <<>>
  /\ dirobj = NoDir
  /\ geo = NoGeo
  /\ pet = NoPet

BlockIsFree(track, sector) ==
  LET r == blockisfree(bam, track, sector) IN
  /\ log' = Push(log, Call("blockisfree", track, sector, r.err, r.val, 0))
  /\ UNCHANGED <<kind, bam, bam0, blocks, dirblocks, dirobj, geo, pet>>

AllocateBlock(track, sector) ==
  LET r == allocateblock(kind, bam, track, sector) IN
  /\ bam' = r.bam
  /\ log' = Push(log, Call("allocateblock", track, sector, r.err, FALSE, 0))
  /\ UNCHANGED <<kind, bam0, blocks, dirblocks, dirobj, geo, pet>>

DeallocateBlock(track, sector) ==
  LET r == deallocateblock(kind, bam, track, sector) IN
  /\ bam' = r.bam
  /\ log' = Push(log, Call("deallocateblock", track, sector, r.err, FALSE, 0))
  /\ UNCHANGED <<kind, bam0, blocks, dirblocks, dirobj, geo, pet>>

GetBlocksFree ==
  LET r == getblocksfree(bam) IN
  /\ log' = Push(log, Call("getblocksfree", 0, 0, r.err, FALSE, r.val))
  /\ UNCHANGED <<kind, bam, bam0, blocks, dirblocks, dirobj, geo, pet>>

GetAllocated ==
  LET r == getallocated(bam) IN
  /\ log' = Push(log, Call("getallocated", 0, 0, r.err, FALSE, r.val))
  /\ UNCHANGED <<kind, bam, bam0, blocks, dirblocks, dirobj, geo, pet>>

NextBAM ==
  \/ \E b \in blocks : BlockIsFree(b[1], b[2])
  \/ \E b \in blocks : AllocateBlock(b[1], b[2])
  \/ \E b \in blocks : DeallocateBlock(b[1], b[2])
  \/ GetBlocksFree
  \/ GetAllocated

SpecBAM == InitBAM /\ [][NextBAM]_vars

\* The runs on one block: every block argument on a sector with the block
\* free and on a sector with the block allocated.
InitBlock ==
  /\ \E fill \in {"free", "full"} : bam = MakeBam(fill)
  /\ kind \in Kinds
  /\ bam0 = bam
  /\ blocks \in BlockScopes
  /\ log = <<>>
  /\ dirblocks = <<>>
  /\ dirobj = NoDir
  /\ geo = NoGeo
  /\ pet = NoPet

NextBlock ==
  \/ \E b \in blocks : BlockIsFree(b[1], b[2])
  \/ \E b \in blocks : AllocateBlock(b[1], b[2])
  \/ \E b \in blocks : DeallocateBlock(b[1], b[2])

SpecBlock == InitBlock /\ [][NextBlock]_vars

(***************************************************************************)
(* DIR class - working with the directory                                  *)
(***************************************************************************)

\* The dict built for the directory slot at offset base of the buffer d.
FileEntry(d, base) ==
  [base   |-> base,
   type   |-> FILETYPES[BitAnd(At(d, base + 2), 7) + 1],
   locked |-> BitAnd(At(d, base + 2), 64) > 0,
   closed |-> BitAnd(At(d, base + 2), 128) > 0,
   track  |-> At(d, base + 3),
   sector |-> At(d, base + 4),
   name   |-> PETtoASC(PETdelpadding(Slice(d, base + 5, base + 21))),
   size   |-> FromBytesLittle(Slice(d, base + 30, base + 32))]

\* The slot at ptr raises in FILETYPES[...]: FILETYPES has five entries, and
\* the file type bits of a slot in use are 5..7.
BadSlot(d, ptr) ==
  At(d, 32 * ptr + 2) > 0 /\ BitAnd(At(d, 32 * ptr + 2), 7) >= Len(FILETYPES)

\* A faulty loop that tests the file type bits instead of the whole type
\* byte, and so skips a DEL entry: C8 must fail on it.
RECURSIVE FileListLoop_typebits(_, _)
FileListLoop_typebits(d, ptr) ==
  IF ptr >= Len(d) \div 32 \/ BadSlot(d, ptr) THEN <<>>
  ELSE (IF BitAnd(At(d, 32 * ptr + 2), 7) > 0
          THEN <<FileEntry(d, 32 * ptr)>> ELSE <<>>)
       \o FileListLoop_typebits(d, ptr + 1)

\* The loop of dirpass from slot ptr on: a slot whose byte 2 is zero is
\* skipped, every other slot appends its dict to the file list.  The loop
\* ends at the last whole slot, or at the first slot that raises: the
\* entries appended before it stay in the list.
RECURSIVE FileListLoop(_, _)
FileListLoop(d, ptr) ==
  IF ptr >= Len(d) \div 32 \/ BadSlot(d, ptr) THEN <<>>
  ELSE (IF At(d, 32 * ptr + 2) > 0 THEN <<FileEntry(d, 32 * ptr)>> ELSE <<>>)
       \o FileListLoop(d, ptr + 1)

\* Some slot of the directory raises IndexError in the loop.
BadFileType(d) == \E ptr \in 0 .. (Len(d) \div 32) - 1 : BadSlot(d, ptr)

\* Dir.dirpass on the object o: the fields are assigned in the order title,
\* ident, blocksfree, header, filelist.  When getblocksfree raises, title and
\* ident are already assigned and the other fields keep what they held; when
\* a slot raises, the file list holds the entries before that slot.
dirpass(o) ==
  IF getblocksfree(o.bam).err # "none"
    THEN [o EXCEPT !.err = "IndexError",
                   !.title = getdiskname(o.bam),
                   !.ident = getdiskident(o.bam)]
    ELSE [o EXCEPT !.err = IF BadFileType(o.dir) THEN "IndexError" ELSE "none",
                   !.title = getdiskname(o.bam),
                   !.ident = getdiskident(o.bam),
                   !.blocksfree = getblocksfree(o.bam).val,
                   !.header = getheader(o.bam),
                   !.filelist = FileListLoop(o.dir, 0)]

\* Dir.__init__: the first 256 bytes are the BAM, the rest the directory
\* (both slices are copies of the kind of the caller's buffer), and dirpass
\* runs on them.  When dirpass raises, the constructor raises and the caller
\* holds no object.
Dir(buf) ==
  LET o == dirpass([NoDir EXCEPT !.state = "built", !.last = "Dir",
                                 !.bam = Slice(buf, 0, 256),
                                 !.dir = SliceFrom(buf, 256)])
  IN IF o.err # "none"
       THEN [NoDir EXCEPT !.state = "failed", !.last = "Dir", !.err = o.err]
       ELSE o

(***************************************************************************)
(* The Dir object as a state machine                                       *)
(***************************************************************************)

MaxSlots == 2

\* What a directory slot holds besides its type byte.
FileHello == [name |-> <<72, 69, 76, 76, 79>>, track |-> 17, sector |-> 0, size |-> 5]

FileLong == [name |-> <<65, 160, 66, 32, 193>>, track |-> 1, sector |-> 20, size |-> 300]

\* A 32-byte directory slot: link, type byte, first track and sector, the
\* name padded with $A0, and the size in blocks, low byte first.
MakeSlot(type, f) ==
  [i \in 1..32 |->
    LET x == i - 1 IN
    IF x = 2 THEN type
    ELSE IF x = 3 THEN f.track
    ELSE IF x = 4 THEN f.sector
    ELSE IF x >= 5 /\ x < 21
      THEN (IF x - 4 <= Len(f.name) THEN f.name[x - 4] ELSE 160)
    ELSE IF x = 30 THEN f.size % 256
    ELSE IF x = 31 THEN f.size \div 256
    ELSE 0]

\* The slots of the sample directories: an empty slot, a scratched file,
\* files of the five types with and without the locked and closed bits, and
\* a slot whose file type bits are outside FILETYPES.
Slots ==
  {MakeSlot(0, FileHello), MakeSlot(128, FileLong), MakeSlot(129, FileHello),
   MakeSlot(130, FileHello), MakeSlot(194, FileLong), MakeSlot(3, FileHello),
   MakeSlot(68, FileLong), MakeSlot(133, FileHello)}

\* The slots of a directory, one after the other.
RECURSIVE Flatten(_)
Flatten(ss) == IF Len(ss) = 0 THEN <<>> ELSE Head(ss) \o Flatten(Tail(ss))

\* Lengths below 256: either side of the last free-count byte at 0x8C and
\* of the text fields.
ShortLengths == {0, 100, 140, 141, 144, 163, 200, 255}

\* What may follow the last whole slot: nothing, or part of a slot.
Tails == {<<>>, SubSeq(MakeSlot(130, FileHello), 1, 31)}

\* The blocks a run calls allocateblock and deallocateblock of Dir.bam on:
\* track 36 sector 0 is bit 0 of byte 0x91 (the disk name), track 1 sector -8
\* is bit 0 of byte 0x04 (the free count of track 1).
DirBlockScopes == {{<<36, 0>>}, {<<1, -8>>}}

\* The values the caller writes to a type byte of Dir.dir.
TypeWrites == {0, 7}

\* The buffer handed to Dir: a BAM sector cut short, or a BAM sector, up to
\* MaxSlots directory slots and a tail.
InitDir ==
  /\ \/ \E fill \in {"free", "full"}, n \in ShortLengths :
          dirblocks = SubSeq(MakeBam(fill), 1, n)
     \/ \E n \in 0..MaxSlots :
          \E ss \in [1..n -> Slots], t \in Tails :
            dirblocks = MakeBam("free") \o Flatten(ss) \o t
  /\ kind \in Kinds
  /\ blocks \in DirBlockScopes
  /\ dirobj = NoDir
  /\ bam = <<>>
  /\ bam0 = <<>>
  /\ log = <<>>
  /\ geo = NoGeo
  /\ pet = NoPet

\* d = Dir(dirblocks)
NewDir ==
  /\ dirobj.state = "none"
  /\ dirobj' = Dir(dirblocks)
  /\ UNCHANGED <<kind, bam, bam0, blocks, log, dirblocks, geo, pet>>

\* d.dirpass() on the object the caller holds
DirPass ==
  /\ dirobj.state = "built"
  /\ dirobj' = [dirpass(dirobj) EXCEPT !.last = "dirpass"]
  /\ UNCHANGED <<kind, bam, bam0, blocks, log, dirblocks, geo, pet>>

\* d.bam.allocateblock(track, sector)
DirAllocateBlock(track, sector) ==
  /\ dirobj.state = "built"
  /\ LET r == allocateblock(kind, dirobj.bam, track, sector) IN
       dirobj' = [dirobj EXCEPT !.last = "allocateblock", !.err = r.err,
                                !.bam = r.bam]
  /\ UNCHANGED <<kind, bam, bam0, blocks, log, dirblocks, geo, pet>>

\* d.bam.deallocateblock(track, sector)
DirDeallocateBlock(track, sector) ==
  /\ dirobj.state = "built"
  /\ LET r == deallocateblock(kind, dirobj.bam, track, sector) IN
       dirobj' = [dirobj EXCEPT !.last = "deallocateblock", !.err = r.err,
                                !.bam = r.bam]
  /\ UNCHANGED <<kind, bam, bam0, blocks, log, dirblocks, geo, pet>>

\* d.dir[32 * ptr + 2] = v by the caller, on the last whole slot of a
\* mutable directory buffer.
WriteTypeByte(v) ==
  /\ dirobj.state = "built"
  /\ kind = "bytearray"
  /\ Len(dirobj.dir) >= 32
  /\ dirobj' = [dirobj EXCEPT !.last = "write", !.err = "none",
                  !.dir = Put(dirobj.dir, 32 * ((Len(dirobj.dir) \div 32) - 1) + 2, v)]
  /\ UNCHANGED <<kind, bam, bam0, blocks, log, dirblocks, geo, pet>>

NextDir ==
  \/ NewDir
  \/ DirPass
  \/ \E b \in blocks : DirAllocateBlock(b[1], b[2])
  \/ \E b \in blocks : DirDeallocateBlock(b[1], b[2])
  \/ \E v \in TypeWrites : WriteTypeByte(v)

SpecDir == InitDir /\ [][NextDir]_vars

(***************************************************************************)
(* The geometry functions and the PETSCII functions applied to inputs      *)
(***************************************************************************)

TrackPad == 4

GeoTracks == (1 - TrackPad) .. (40 + TrackPad)

InitGeo ==
  /\ \E t \in GeoTracks, s \in SectorArgs :
       geo = [op |-> "args", track |-> t, sector |-> s, val |-> 0]
  /\ kind = "bytes"
  /\ bam = <<>>
  /\ bam0 = <<>>
  /\ blocks = {}
  /\ log = <<>>
  /\ dirblocks = <<>>
  /\ dirobj = NoDir
  /\ pet = NoPet

GetSectors ==
  /\ geo.op = "args"
  /\ geo' = [geo EXCEPT !.op = "getsectors", !.val = getsectors(geo.track)]
  /\ UNCHANGED <<kind, bam, bam0, blocks, log, dirblocks, dirobj, pet>>

GetSectorNumber ==
  /\ geo.op = "args"
  /\ geo' = [geo EXCEPT !.op = "getsectornumber",
                        !.val = getsectornumber(geo.track, geo.sector)]
  /\ UNCHANGED <<kind, bam, bam0, blocks, log, dirblocks, dirobj, pet>>

GetFilePointer ==
  /\ geo.op = "args"
  /\ geo' = [geo EXCEPT !.op = "getfilepointer",
                        !.val = getfilepointer(geo.track, geo.sector)]
  /\ UNCHANGED <<kind, bam, bam0, blocks, log, dirblocks, dirobj, pet>>

NextGeo == GetSectors \/ GetSectorNumber \/ GetFilePointer

SpecGeo == InitGeo /\ [][NextGeo]_vars

MaxLineLen == 2

\* The input lines: from every byte value on, the bytes that follow it.
PetLines ==
  {[i \in 1..n |-> (b + i - 1) % 256] : b \in 0..255, n \in 1..MaxLineLen}

InitPET ==
  /\ \E l \in PetLines :
       pet = [stage |-> "input", line |-> l, asc |-> <<>>, err |-> "none",
              back |-> <<>>]
  /\ kind = "bytes"
  /\ bam = <<>>
  /\ bam0 = <<>>
  /\ blocks = {}
  /\ log = <<>>
  /\ dirblocks = <<>>
  /\ dirobj = NoDir
  /\ geo = NoGeo

\* asc = PETtoASC(line)
PetToAsc ==
  /\ pet.stage = "input"
  /\ pet' = [pet EXCEPT !.stage = "ascii", !.asc = PETtoASC(pet.line)]
  /\ UNCHANGED <<kind, bam, bam0, blocks, log, dirblocks, dirobj, geo>>

\* back = ASCtoPET(asc)
AscToPet ==
  /\ pet.stage = "ascii"
  /\ LET r == ASCtoPET(pet.asc) IN
       pet' = [pet EXCEPT !.stage = "petscii", !.err = r.err, !.back = r.val]
  /\ UNCHANGED <<kind, bam, bam0, blocks, log, dirblocks, dirobj, geo>>

\* back = PETdelpadding(line)
DelPadding ==
  /\ pet.stage = "input"
  /\ pet' = [pet EXCEPT !.stage = "stripped", !.back = PETdelpadding(pet.line)]
  /\ UNCHANGED <<kind, bam, bam0, blocks, log, dirblocks, dirobj, geo>>

NextPET == PetToAsc \/ AscToPet \/ DelPadding

SpecPET == InitPET /\ [][NextPET]_vars

(***************************************************************************)
(* Properties of the BAM calls                                             *)
(***************************************************************************)

Last == log[Len(log)]

Prev == log[Len(log) - 1]

\* A block of the disk that the BAM covers.
ValidBlock(track, sector) ==
  track \in 1..35 /\ sector \in 0 .. getsectors(track) - 1

\* Track 1 fully free: free count 21 at byte 4, bits 0..20 of bytes 5..7 set.
Track1FullyFree(b) ==
  /\ Len(b) = 256
  /\ b[5] = 21
  /\ b[6] = 255
  /\ b[7] = 255
  /\ b[8] % 32 = 31

\* The last two calls were first(track, sector) and then second on the same
\* block.
LastTwo(first, second) ==
  /\ Len(log) = 2
  /\ Prev.op = first
  /\ Last.op = second
  /\ Last.track = Prev.track
  /\ Last.sector = Prev.sector

\* blockisfree(1, 0) was called right after deallocateblock(1, 0) on a sector
\* in which track 1 was fully free.
DeallocatedThenAsked ==
  /\ LastTwo("deallocateblock", "blockisfree")
  /\ Last.track = 1
  /\ Last.sector = 0
  /\ Track1FullyFree(Prev.before)

\* C1 as stated: on a sector with track 1 fully free, blockisfree(1, 0)
\* after deallocateblock(1, 0) returns False.
C1_AsStated == DeallocatedThenAsked => (Last.err = "none" /\ Last.free = FALSE)

\* C1 amended: on a sector with track 1 fully free, blockisfree(1, 0) after
\* deallocateblock(1, 0) returns True: deallocateblock sets the bit, and a
\* set bit means free.
C1_DeallocatedIsFree ==
  DeallocatedThenAsked => (Last.err = "none" /\ Last.free = TRUE)

\* The call of deallocateblock(1, 0) went through, and blockisfree(1, 0)
\* was asked after it.
C1_Witness == DeallocatedThenAsked /\ Prev.err = "none"

\* The value blockisfree returns on the buffer b.
IsFree(b, track, sector) == blockisfree(b, track, sector).val

\* C2: on a sector buffer that takes item assignment, for every block of
\* tracks 1..35, allocateblock followed by deallocateblock on a free block,
\* and deallocateblock followed by allocateblock on an allocated block, leave
\* all 256 bytes of the sector as they were before the two calls, and on the
\* buffer between the two calls blockisfree returns the opposite of what it
\* returned before them.
C2_OppositeCallRestores ==
  /\ (/\ kind = "bytearray"
      /\ LastTwo("allocateblock", "deallocateblock")
      /\ ValidBlock(Last.track, Last.sector)
      /\ IsFree(Prev.before, Last.track, Last.sector))
       => /\ Prev.err = "none" /\ Last.err = "none"
          /\ Len(bam) = 256
          /\ \A i \in 1..256 : bam[i] = Prev.before[i]
          /\ ~IsFree(Last.before, Last.track, Last.sector)
  /\ (/\ kind = "bytearray"
      /\ LastTwo("deallocateblock", "allocateblock")
      /\ ValidBlock(Last.track, Last.sector)
      /\ ~IsFree(Prev.before, Last.track, Last.sector))
       => /\ Prev.err = "none" /\ Last.err = "none"
          /\ Len(bam) = 256
          /\ \A i \in 1..256 : bam[i] = Prev.before[i]
          /\ IsFree(Last.before, Last.track, Last.sector)

\* A free block of the last track was allocated and then de-allocated.
C2_Witness ==
  /\ kind = "bytearray"
  /\ LastTwo("allocateblock", "deallocateblock")
  /\ Last.track = 35
  /\ Last.sector = 16
  /\ IsFree(Prev.before, 35, 16)
  /\ Last.before # Prev.before

\* C3 as stated: a call of blockisfree, allocateblock or deallocateblock with
\* a track outside 1..35 ends in an error and leaves the buffer unchanged.
C3_OutOfRangeTrackIsError ==
  (Len(log) >= 1 /\ Last.track \notin 1..35)
    => (Last.err # "none" /\ bam = Last.before)

\* The sum of the free-count bytes (offset 4 * t) of the tracks in T.
RECURSIVE SumOfCounts(_, _)
SumOfCounts(b, T) ==
  IF T = {} THEN 0
  ELSE LET t == CHOOSE u \in T : TRUE IN b[4 * t + 1] + SumOfCounts(b, T \ {t})

\* C6: getblocksfree returns the sum of the free-count bytes at offsets 4 * t
\* for t in 1..35 without t = 18, and returns the same on every sector that
\* differs from this one only in byte 0x48, whatever the value 0..255 there.
C6_BlocksFreeSkipsTrack18 ==
  (Len(log) >= 1 /\ Last.op = "getblocksfree") =>
    /\ Last.err = "none"
    /\ Last.val = SumOfCounts(bam, (1..35) \ {18})
    /\ \A v \in 0..255 :
         getblocksfree([bam EXCEPT ![73] = v]) = [err |-> "none", val |-> Last.val]

\* getblocksfree was called on a sector whose byte 0x48 is no longer the one
\* the sector started with, the other free counts being the same.
C6_Witness ==
  /\ Len(log) >= 1
  /\ Last.op = "getblocksfree"
  /\ bam[73] # bam0[73]
  /\ \A t \in (1..35) \ {18} : bam[4 * t + 1] = bam0[4 * t + 1]
  /\ Last.val = getblocksfree(bam0).val

\* The bytes of the bitmaps: bytes 1..3 of the group of each track 1..35.
BitmapBytes == {4 * t + k : t \in 1..35, k \in 1..3}

\* C9: as long as every allocateblock and deallocateblock call is on a block
\* of tracks 1..35 (sector below the track's sector count), the 35 free-count
\* bytes and all bytes outside the bitmaps keep the values the sector
\* started with, and getblocksfree and getallocated return what they return
\* on the sector as it started.
C9_CountsUntouched ==
  (\A b \in blocks : ValidBlock(b[1], b[2])) =>
    /\ Len(bam) = 256
    /\ \A x \in 0..255 : x \notin BitmapBytes => bam[x + 1] = bam0[x + 1]
    /\ getblocksfree(bam) = getblocksfree(bam0)
    /\ getallocated(bam) = getallocated(bam0)
    /\ (Len(log) >= 1 /\ Last.op = "getblocksfree")
         => Last.val = getblocksfree(bam0).val
    /\ (Len(log) >= 1 /\ Last.op = "getallocated")
         => Last.val = getallocated(bam0).val

\* After calls on blocks of the disk that changed the bitmaps of two tracks,
\* getallocated was called.
C9_Witness ==
  /\ \A b \in blocks : ValidBlock(b[1], b[2])
  /\ Cardinality({t \in 1..35 : \E k \in 1..3 : bam[4 * t + k + 1] # bam0[4 * t + k + 1]}) >= 2
  /\ Len(log) = 2
  /\ Prev.op \in {"allocateblock", "deallocateblock"}
  /\ Last.op = "getallocated"

(***************************************************************************)
(* Properties of the directory                                             *)
(***************************************************************************)

\* C4 as stated: building a Dir from fewer than 256 + 32 bytes is reported
\* as a MalformedBuffer error, and no Dir object results.
C4_ShortBufferIsMalformed ==
  (dirobj.state # "none" /\ Len(dirblocks) < 288)
    => (dirobj.state = "failed" /\ dirobj.err = "MalformedBuffer")

\* Byte off of slot k of the directory buffer d.
SlotByte(d, k, off) == d[32 * k + off + 1]

\* The number of whole 32-byte slots of the directory buffer d.
NumSlots(d) == Len(d) \div 32

\* The slots that are not empty.
UsedSlots(d) == {k \in 0 .. NumSlots(d) - 1 : SlotByte(d, k, 2) # 0}

\* The type byte of every slot is 0 or has its low 3 bits in 0..4.
KnownTypes(d) == \A k \in 0 .. NumSlots(d) - 1 : SlotByte(d, k, 2) % 8 <= 4

TypeName(n) ==
  CASE n = 0 -> "DEL" [] n = 1 -> "SEQ" [] n = 2 -> "PRG" [] n = 3 -> "USR"
    [] n = 4 -> "REL"

\* The directory bytes of the buffer handed to Dir.
DirBytes == SubSeq(dirblocks, 257, Len(dirblocks))

\* C8: when every slot's type byte is 0 or has its low 3 bits in 0..4, the
\* file list that Dir or dirpass builds holds one entry for each slot with a
\* nonzero type byte and none for the others, in ascending slot order; an
\* entry's base is 32 times its slot index, its type the low 3 bits looked up
\* in DEL, SEQ, PRG, USR, REL, locked is bit 6, closed is bit 7, and size is
\* byte 0x1E + 256 * byte 0x1F.  Dir on such a buffer behind a whole BAM
\* sector does not raise.
C8_FileListMatchesSlots ==
  /\ (dirobj.state = "failed" /\ Len(dirblocks) >= 256) => ~KnownTypes(DirBytes)
  /\ (/\ dirobj.state = "built"
      /\ dirobj.last \in {"Dir", "dirpass"}
      /\ KnownTypes(dirobj.dir))
       => /\ dirobj.err = "none"
          /\ Len(dirobj.filelist) = Cardinality(UsedSlots(dirobj.dir))
          /\ \A k \in UsedSlots(dirobj.dir) :
               \E i \in 1..Len(dirobj.filelist) : dirobj.filelist[i].base = 32 * k
          /\ \A i \in 1..Len(dirobj.filelist) :
               LET e == dirobj.filelist[i]
                   k == e.base \div 32
                   t == SlotByte(dirobj.dir, k, 2)
               IN /\ e.base % 32 = 0
                  /\ k \in UsedSlots(dirobj.dir)
                  /\ i > 1 => dirobj.filelist[i - 1].base < e.base
                  /\ e.type = TypeName(t % 8)
                  /\ e.locked = ((t \div 64) % 2 = 1)
                  /\ e.closed = (t >= 128)
                  /\ e.size = SlotByte(dirobj.dir, k, 30)
                                + 256 * SlotByte(dirobj.dir, k, 31)

\* dirpass ran on a directory of two slots after the caller had emptied the
\* second: the first holds a DEL entry of 300 blocks with bit 7 set.
C8_Witness ==
  /\ dirobj.state = "built"
  /\ dirobj.last = "dirpass"
  /\ dirobj.err = "none"
  /\ NumSlots(dirobj.dir) = 2
  /\ SlotByte(dirobj.dir, 0, 2) = 128
  /\ SlotByte(dirobj.dir, 1, 2) = 0
  /\ SlotByte(DirBytes, 1, 2) # 0
  /\ Len(dirobj.filelist) = 1
  /\ dirobj.filelist[1].base = 0
  /\ dirobj.filelist[1].size = 300

(***************************************************************************)
(* Properties of the PETSCII conversion                                    *)
(***************************************************************************)

\* C5 as stated: ASCtoPET(PETtoASC(b)) = b for every byte value b in 0..255.
C5_RoundTripAllBytes == pet.stage = "petscii" => pet.back = pet.line

\* C5 amended: ASCtoPET(PETtoASC(b)) = b for every byte value b in 0..255
\* other than 0x09 and 0xE0..0xFF.  PETtoASC maps 0xE0..0xFF to the values
\* of 0xA0..0xBF, so these come back as b - 0x40, and 0x09 comes back as
\* 0x20.
C5_RoundTripButCollisions ==
  pet.stage = "petscii" =>
    /\ pet.err = "none"
    /\ Len(pet.back) = Len(pet.line)
    /\ Len(pet.asc) = Len(pet.line)
    /\ \A i \in 1..Len(pet.line) :
         LET b == pet.line[i] IN
         /\ (b # 9 /\ b < 224) => pet.back[i] = b
         /\ b = 9 => pet.back[i] = 32
         /\ b >= 224 => (pet.back[i] = b - 64 /\ pet.asc[i] = b - 64)

\* The line 0xDF 0xE0 went through PETtoASC and ASCtoPET: the first byte came
\* back, the second came back as 0xA0.
C5_Witness ==
  /\ pet.stage = "petscii"
  /\ pet.line = <<223, 224>>
  /\ pet.back = <<223, 160>>

(***************************************************************************)
(* Properties of the geometry                                              *)
(***************************************************************************)

\* C7: getsectors returns 21 for tracks 1..17, 19 for 18..24, 18 for 25..30,
\* 17 for 31..40 and 0 for every track below 1 or above 40.
C7_SectorsPerZone ==
  geo.op = "getsectors" =>
    geo.val = (IF geo.track \in 1..17 THEN 21
               ELSE IF geo.track \in 18..24 THEN 19
               ELSE IF geo.track \in 25..30 THEN 18
               ELSE IF geo.track \in 31..40 THEN 17
               ELSE 0)

\* getsectors was called for track 40, the last track with sectors.
C7_Witness == geo.op = "getsectors" /\ geo.track = 40 /\ geo.val = 17

\* The blocks of a 40-track disk, by the zones of C7.
ValidPairs ==
  {p \in (1..40) \X (0..20) :
     p[2] < (IF p[1] <= 17 THEN 21 ELSE IF p[1] <= 24 THEN 19
             ELSE IF p[1] <= 30 THEN 18 ELSE 17)}

\* p before q in the order by track, then sector.
LexLess(p, q) == p[1] < q[1] \/ (p[1] = q[1] /\ p[2] < q[2])

\* What getsectornumber and getfilepointer return, as tables by track and
\* sector.
SectorNumbers == [t \in 1..40 |-> [s \in 0..20 |-> getsectornumber(t, s)]]

\* The sector numbers of all blocks, and of the blocks of tracks 1..35.
AllSectorNumbers == {SectorNumbers[p[1]][p[2]] : p \in ValidPairs}

BamSectorNumbers ==
  {SectorNumbers[p[1]][p[2]] : p \in {q \in ValidPairs : q[1] <= 35}}

FilePointers == [t \in 1..40 |-> [s \in 0..20 |-> getfilepointer(t, s)]]

\* C10: over the blocks of tracks 1..40 getsectornumber is strictly
\* increasing in (track, sector) order and takes exactly the values 0..767
\* (exactly 0..682 on tracks 1..35, and 357 at (18, 0)); getfilepointer is
\* 256 times getsectornumber, so the 256-byte ranges of two different blocks
\* do not overlap.
C10_SectorNumberBijection ==
  LET cur == <<geo.track, geo.sector>> IN
  /\ (geo.op = "getsectornumber" /\ cur \in ValidPairs) =>
       /\ geo.val \in 0..767
       /\ geo.val = SectorNumbers[cur[1]][cur[2]]
       /\ \A p \in ValidPairs : LexLess(p, cur) => SectorNumbers[p[1]][p[2]] < geo.val
       /\ geo.track <= 35 => geo.val <= 682
       /\ cur = <<18, 0>> => geo.val = 357
       /\ AllSectorNumbers = 0..767
       /\ BamSectorNumbers = 0..682
  /\ (geo.op = "getfilepointer" /\ cur \in ValidPairs) =>
       /\ geo.val = 256 * SectorNumbers[cur[1]][cur[2]]
       /\ \A p \in ValidPairs \ {cur} :
            \/ FilePointers[p[1]][p[2]] + 256 <= geo.val
            \/ geo.val + 256 <= FilePointers[p[1]][p[2]]

\* getsectornumber was called for the first block of the directory track.
C10_Witness ==
  /\ geo.op = "getsectornumber"
  /\ geo.track = 18
  /\ geo.sector = 0
  /\ geo.val = 357

====
